---- MODULE Spec2Model ----
(***************************************************************************)
(* A model of the fundvis entity store and its upsert path:                *)
(*   crud.py             fuzzy_match_* resolvers and update_database       *)
(*   models.py           the tables and their keys                         *)
(*   schema.py           the validated input records                       *)
(*   update.py           the script that loads a record and upserts it     *)
(*   data_acquisition.py the OpenAlex fetch and add_paper_to_db            *)
(*   app.py              the dashboard's "Fetch and Add Paper Data" button *)
(*                                                                         *)
(* Names are sequences of one-character strings, so that case folding and  *)
(* SQL LIKE are computed character by character.  A store is a record of   *)
(* tables; a table is the sequence of its rows in insertion order, and the *)
(* surrogate id of an entity row is its position.                          *)
(***************************************************************************)
EXTENDS Integers, Sequences, FiniteSets, TLC

\* ------------------------------------------------------------------ bounds
\* How many loads (script runs or dashboard ingestions) a behaviour makes.
MaxRuns == 2
\* How many names one input record holds in all (authors, institutions,
\* author-level funders, paper-level funders).
MaxNames == 3

\* ------------------------------------------------------------- name universe
\* Per kind: a name, the same name in another letter case, and a name that
\* holds one of SQL LIKE's special characters.
Al == <<"A", "l">>
AL == <<"A", "L">>
A_ == <<"A", "_">>
MIT == <<"M", "I", "T">>
mit == <<"m", "i", "t">>
Mpct == <<"M", "%">>
NSF == <<"N", "S", "F">>
nsf == <<"n", "s", "f">>
N_F == <<"N", "_", "F">>

AuthorNames == {Al, AL}
InstitutionNames == {MIT, mit, Mpct}
FunderNames == {NSF, nsf, N_F}
\* The names the resolvers are probed with.
ProbeNames == {Al, AL, A_, MIT, mit, Mpct, NSF, nsf, N_F}
\* A DOI is a sequence of tokens, so that the resolver-URL prefix can be
\* told from the bare identifier.
DoiPrefix == "https://doi.org/"
DOIs == {<<"10.1/x">>, <<"10.1/y">>}

\* The value of a JSON key that is absent (or null): no name and no DOI.
Missing == <<"<missing>">>

\* Python's None; also an unassigned surrogate id.
None == 0

\* --------------------------------------------------------------- strings
UpperAlpha == <<"A", "B", "C", "D", "E", "F", "G", "H", "I", "J", "K", "L", "M",
                "N", "O", "P", "Q", "R", "S", "T", "U", "V", "W", "X", "Y", "Z">>
LowerAlpha == <<"a", "b", "c", "d", "e", "f", "g", "h", "i", "j", "k", "l", "m",
                "n", "o", "p", "q", "r", "s", "t", "u", "v", "w", "x", "y", "z">>

\* SQL lower() on one character: ASCII letters fold, everything else stays.
FoldTable ==
    [c \in {UpperAlpha[i] : i \in 1..Len(UpperAlpha)} |->
        LowerAlpha[CHOOSE i \in 1..Len(UpperAlpha) : UpperAlpha[i] = c]]

LowerChar(c) == IF c \in DOMAIN FoldTable THEN FoldTable[c] ELSE c

Lower(str) == [i \in 1..Len(str) |-> LowerChar(str[i])]

\* SQL LIKE without an ESCAPE clause: '%' matches any run of characters
\* (the empty one too), '_' matches exactly one character.
RECURSIVE SqlLike(_, _)
SqlLike(str, pat) ==
    IF pat = <<>> THEN str = <<>>
    ELSE IF Head(pat) = "%"
         THEN SqlLike(str, Tail(pat)) \/ (str # <<>> /\ SqlLike(Tail(str), pat))
         ELSE /\ str # <<>>
              /\ (Head(pat) = "_" \/ Head(pat) = Head(str))
              /\ SqlLike(Tail(str), Tail(pat))

\* A faulty variant of ilike: a case-sensitive comparison.
ilikeCaseSensitive(column, name) == column = name

\* Column.ilike(name): lower(column) LIKE lower(name).
ilike(column, name) == SqlLike(Lower(column), Lower(name))

\* Equality after case folding: what "case-insensitive exact match" means.
SameFolded(a, b) == Lower(a) = Lower(b)

\* ---------------------------------------------------------------- tables
EntityTables == {"authors", "funders", "institutions", "papers"}

Schema ==
    [authors |-> <<>>, funders |-> <<>>, institutions |-> <<>>, papers |-> <<>>,
     author_institutions |-> <<>>, institution_funders |-> <<>>,
     paper_authors |-> <<>>, paper_funders |-> <<>>, author_funders |-> <<>>]

InSeq(x, seq) == \E i \in 1..Len(seq) : seq[i] = x

\* LIMIT 1 of a table scan: of the rowids that pass, the least.
First(hits) ==
    IF hits = {} THEN None ELSE CHOOSE i \in hits : \A j \in hits : i <= j

\* --------------------------------------------------------------- session
\* A Session (extensions.py: sessionmaker(bind=engine), so autoflush is on):
\*   t       the tables as this session's transaction sees them
\*   pend    what the unit of work holds unwritten: new objects and new rows
\*           of the relationship collections, in the order they were added
\*   err     an exception is propagating out of update_database
\*   refused the table whose INSERT the store refused ("none": no refusal)
\*   ops     SQL statements executed so far
\*   log     log[k] is t as it was when statement k was issued
\* An ORM object is known by the id its row has once written: new rows take
\* the next rowid in the order they were added.  Its id attribute reads None
\* until then.
NewSession(db) ==
    [t |-> db, pend |-> <<>>, err |-> FALSE, refused |-> "none", ops |-> 0,
     log |-> <<>>]

\* One SQL statement reaches the store.
Stmt(s) ==
    IF s.err THEN s
    ELSE [s EXCEPT !.ops = s.ops + 1, !.log = Append(@, s.t)]

PendCount(s, table) ==
    Cardinality({i \in 1..Len(s.pend) : s.pend[i].k = table})

\* session.add(obj) of a new entity: nothing reaches the store yet.
AddObject(s, table, value) ==
    [s EXCEPT !.pend = Append(@, [k |-> table, v |-> value])]

\* The id the next object added to `table` will get.
NextId(s, table) == Len(s.t[table]) + PendCount(s, table) + 1

\* obj.id as Python reads it now.
IdOf(s, table, obj) == IF obj <= Len(s.t[table]) THEN obj ELSE None

HasNull(row) == \E i \in 1..Len(row) : row[i] = None


\* A faulty variant of InsertRow: a store whose link tables have no primary
\* key, so that every row is taken.
InsertRowNoKey(s, item) ==
    LET s1 == Stmt(s) IN
    IF s1.err THEN s1
    ELSE [s1 EXCEPT !.t[item.k] = Append(@, item.v)]

\* One INSERT.  The entity tables have a surrogate key only (models.py
\* declares no unique constraint on name or doi); every other table's
\* primary key is the whole row, so a NULL or a repeated row is refused.
InsertRow(s, item) ==
    LET s1 == Stmt(s) IN
    IF s1.err THEN s1
    ELSE IF item.k \notin EntityTables
            /\ (HasNull(item.v) \/ InSeq(item.v, s1.t[item.k]))
         THEN [s1 EXCEPT !.err = TRUE, !.refused = item.k]
         ELSE [s1 EXCEPT !.t[item.k] = Append(@, item.v)]

RECURSIVE InsertAll(_, _)
InsertAll(s, items) ==
    IF items = <<>> \/ s.err THEN s
    ELSE InsertAll(InsertRow(s, Head(items)), Tail(items))

\* session.flush(): the unit of work writes the new entity rows first, then
\* the rows that refer to them.
Flush(s) ==
    IF s.err THEN s
    ELSE LET ents == SelectSeq(s.pend, LAMBDA it : it.k \in EntityTables)
             rest == SelectSeq(s.pend, LAMBDA it : it.k \notin EntityTables)
         IN InsertAll([s EXCEPT !.pend = <<>>], ents \o rest)

\* A faulty variant of Query: the session does not autoflush.
QueryNoAutoflush(s) == Stmt(s)

\* Executing a query: autoflush, then the SELECT.
Query(s) == Stmt(Flush(s))

\* session.commit(): flush, then COMMIT.
Commit(s) == Stmt(Flush(s))

\* ------------------------------------------------------------- resolvers
\* Each resolver returns [s |-> the session after the query, r |-> the id of
\* the matched row or None].  The threshold parameter is unused.


\* .filter(X.name.ilike(name)).first()
MatchByName(rows, name) == First({i \in 1..Len(rows) : ilike(rows[i], name)})

\* fuzzy_match_author; a hit loads author_funder_associations and institutions
\* with one SELECT each (selectinload).
fuzzy_match_author(s, name) ==
    LET s1 == Query(s)
        r == MatchByName(s1.t.authors, name)
    IN IF s1.err THEN [s |-> s1, r |-> None]
       ELSE IF r = None THEN [s |-> s1, r |-> None]
       ELSE [s |-> Stmt(Stmt(s1)), r |-> r]

\* A faulty variant of fuzzy_match_funder: a name that is not found is added
\* to the session and returned.
fuzzy_match_funder_or_add(s, name) ==
    LET s1 == Query(s)
        r == IF s1.err THEN None ELSE MatchByName(s1.t.funders, name)
    IN IF s1.err \/ r # None THEN [s |-> s1, r |-> r]
       ELSE [s |-> AddObject(s1, "funders", name), r |-> NextId(s1, "funders")]

fuzzy_match_funder(s, name) ==
    LET s1 == Query(s)
    IN [s |-> s1, r |-> IF s1.err THEN None ELSE MatchByName(s1.t.funders, name)]

\* A faulty variant of fuzzy_match_institution: the query is the funder
\* resolver's, left on the funders table.
fuzzy_match_institution_in_funders(s, name) ==
    LET s1 == Query(s)
    IN [s |-> s1, r |-> IF s1.err THEN None ELSE MatchByName(s1.t.funders, name)]

fuzzy_match_institution(s, name) ==
    LET s1 == Query(s)
    IN [s |-> s1, r |-> IF s1.err THEN None ELSE MatchByName(s1.t.institutions, name)]

\* ------------------------------------------------------- update_database
\* The locals of one update_database call:
\*   s            the session
\*   db_paper     the Paper object, db_author the Author object
\*   loaded       db_author.institutions is in memory
\*   insts        the members of db_author.institutions
\*   funders      author_related_funders
\*   institutions author_related_institutions
\*   p_authors    the members of db_paper.authors
\*   p_loaded     db_paper.funders is in memory, p_funders its members
RowsOf(table, col, id, other) ==
    LET hit == SelectSeq(table, LAMBDA row : row[col] = id)
    IN [i \in 1..Len(hit) |-> hit[i][other]]

\* 1. Find or create the Paper (filter_by(doi=...): the doi as written).
FindOrCreatePaper(db, doi) ==
    LET s1 == Query(NewSession(db))
        hit == First({i \in 1..Len(s1.t.papers) : s1.t.papers[i] = doi})
        new == s1.err = FALSE /\ hit = None
    IN [s |-> IF new THEN AddObject(s1, "papers", doi) ELSE s1,
        db_paper |-> IF new THEN NextId(s1, "papers") ELSE hit,
        db_author |-> None, loaded |-> FALSE, insts |-> <<>>,
        funders |-> <<>>, institutions |-> <<>>,
        p_authors |-> <<>>, p_loaded |-> FALSE, p_funders |-> <<>>]

\* 2. Find or create the Author.
\* A faulty variant of FindOrCreateAuthor: a matched author takes the
\* spelling of the incoming record.
FindOrCreateAuthorRenaming(f, name) ==
    IF f.s.err THEN f
    ELSE LET m == fuzzy_match_author(f.s, name) IN
         IF m.s.err THEN [f EXCEPT !.s = m.s]
         ELSE IF m.r = None
              THEN [f EXCEPT !.s = AddObject(m.s, "authors", name),
                             !.db_author = NextId(m.s, "authors")]
              ELSE [f EXCEPT !.s = [m.s EXCEPT !.t.authors[m.r] = name],
                             !.db_author = m.r, !.loaded = TRUE,
                             !.insts = RowsOf(m.s.t.author_institutions, 1, m.r, 2)]

FindOrCreateAuthor(f, name) ==
    IF f.s.err THEN f
    ELSE LET m == fuzzy_match_author(f.s, name) IN
         IF m.s.err THEN [f EXCEPT !.s = m.s]
         ELSE IF m.r = None
              THEN [f EXCEPT !.s = AddObject(m.s, "authors", name),
                             !.db_author = NextId(m.s, "authors")]
              ELSE [f EXCEPT !.s = m.s, !.db_author = m.r, !.loaded = TRUE,
                             !.insts = RowsOf(m.s.t.author_institutions, 1, m.r, 2)]

\* A faulty variant of FindOrCreateFunders: the funders the author has on
\* any paper are taken along with the listed ones.
RECURSIVE FindOrCreateFundersWithKnown(_, _)
FindOrCreateFundersWithKnown(f, names) ==
    IF f.s.err THEN f
    ELSE IF names = <<>>
    THEN [f EXCEPT !.funders = @ \o RowsOf(f.s.t.author_funders, 1, f.db_author, 2)]
    ELSE LET m == fuzzy_match_funder(f.s, Head(names))
             new == m.s.err = FALSE /\ m.r = None
             obj == IF new THEN NextId(m.s, "funders") ELSE m.r
             s2 == IF new THEN AddObject(m.s, "funders", Head(names)) ELSE m.s
         IN IF m.s.err THEN [f EXCEPT !.s = m.s]
            ELSE FindOrCreateFundersWithKnown(
                    [f EXCEPT !.s = s2, !.funders = Append(@, obj)], Tail(names))

\* 3. Find or create the Funder objects of the author's schema.
RECURSIVE FindOrCreateFunders(_, _)
FindOrCreateFunders(f, names) ==
    IF f.s.err \/ names = <<>> THEN f
    ELSE LET m == fuzzy_match_funder(f.s, Head(names))
             new == m.s.err = FALSE /\ m.r = None
             obj == IF new THEN NextId(m.s, "funders") ELSE m.r
             s2 == IF new THEN AddObject(m.s, "funders", Head(names)) ELSE m.s
         IN IF m.s.err THEN [f EXCEPT !.s = m.s]
            ELSE FindOrCreateFunders(
                    [f EXCEPT !.s = s2, !.funders = Append(@, obj)], Tail(names))

\* 4. Find or create the Institution objects of the author's schema.
RECURSIVE FindOrCreateInstitutions(_, _)
FindOrCreateInstitutions(f, names) ==
    IF f.s.err \/ names = <<>> THEN f
    ELSE LET m == fuzzy_match_institution(f.s, Head(names))
             new == m.s.err = FALSE /\ m.r = None
             obj == IF new THEN NextId(m.s, "institutions") ELSE m.r
             s2 == IF new THEN AddObject(m.s, "institutions", Head(names)) ELSE m.s
         IN IF m.s.err THEN [f EXCEPT !.s = m.s]
            ELSE FindOrCreateInstitutions(
                    [f EXCEPT !.s = s2, !.institutions = Append(@, obj)], Tail(names))

\* Reading db_author.institutions: in memory after selectinload; empty,
\* without SQL, while the author is pending; a lazy load otherwise.
LoadAuthorInstitutions(f) ==
    IF f.s.err \/ f.loaded THEN f
    ELSE IF IdOf(f.s, "authors", f.db_author) = None
         THEN [f EXCEPT !.loaded = TRUE, !.insts = <<>>]
         ELSE LET s1 == Query(f.s) IN
              IF s1.err THEN [f EXCEPT !.s = s1]
              ELSE [f EXCEPT !.s = s1, !.loaded = TRUE,
                             !.insts = RowsOf(s1.t.author_institutions, 1, f.db_author, 2)]

\* A faulty variant of LinkInstitutions: appends without the membership test.
RECURSIVE LinkInstitutionsUnchecked(_, _)
LinkInstitutionsUnchecked(f, objs) ==
    IF f.s.err \/ objs = <<>> THEN f
    ELSE LinkInstitutionsUnchecked(
            [f EXCEPT !.insts = Append(@, Head(objs)),
                      !.s = AddObject(f.s, "author_institutions",
                                      <<f.db_author, Head(objs)>>)],
            Tail(objs))

\* A faulty variant of LinkInstitutions: a new link also attaches the call's
\* first funder to the institution.
RECURSIVE LinkInstitutionsToFunders(_, _)
LinkInstitutionsToFunders(f, objs) ==
    IF f.s.err \/ objs = <<>> THEN f
    ELSE IF InSeq(Head(objs), f.insts)
         THEN LinkInstitutionsToFunders(f, Tail(objs))
         ELSE LinkInstitutionsToFunders(
                [f EXCEPT !.insts = Append(@, Head(objs)),
                          !.s = LET s1 == AddObject(f.s, "author_institutions",
                                                    <<f.db_author, Head(objs)>>)
                                IN IF f.funders = <<>> THEN s1
                                   ELSE AddObject(s1, "institution_funders",
                                                  <<Head(objs), f.funders[1]>>)],
                Tail(objs))

\* 5. Associate the author with their institutions.
RECURSIVE LinkInstitutions(_, _)
LinkInstitutions(f, objs) ==
    IF f.s.err \/ objs = <<>> THEN f
    ELSE IF InSeq(Head(objs), f.insts)
         THEN LinkInstitutions(f, Tail(objs))
         ELSE LinkInstitutions(
                [f EXCEPT !.insts = Append(@, Head(objs)),
                          !.s = AddObject(f.s, "author_institutions",
                                          <<f.db_author, Head(objs)>>)],
                Tail(objs))

\* if db_paper.id is None: session.flush()
FlushIfPaperNew(f) ==
    IF f.s.err THEN f
    ELSE IF IdOf(f.s, "papers", f.db_paper) = None
         THEN [f EXCEPT !.s = Flush(f.s)]
         ELSE f

\* A faulty variant of LinkAuthorFunders: adds the link without looking
\* for an existing one.
RECURSIVE LinkAuthorFundersUnchecked(_, _)
LinkAuthorFundersUnchecked(f, objs) ==
    IF f.s.err \/ objs = <<>> THEN f
    ELSE LET s1 == Query(f.s)
             link == <<IdOf(s1, "authors", f.db_author),
                       IdOf(s1, "funders", Head(objs)),
                       IdOf(s1, "papers", f.db_paper)>>
         IN IF s1.err THEN [f EXCEPT !.s = s1]
            ELSE LinkAuthorFundersUnchecked(
                    [f EXCEPT !.s = AddObject(s1, "author_funders", link)],
                    Tail(objs))

\* A faulty variant of LinkAuthorFunders: the new link takes the ids read
\* for the filter, before the query has flushed the session.
RECURSIVE LinkAuthorFundersEarlyIds(_, _)
LinkAuthorFundersEarlyIds(f, objs) ==
    IF f.s.err \/ objs = <<>> THEN f
    ELSE LET key == <<IdOf(f.s, "authors", f.db_author),
                      IdOf(f.s, "funders", Head(objs)),
                      IdOf(f.s, "papers", f.db_paper)>>
             s1 == Query(f.s)
             existing_link == ~s1.err /\ InSeq(key, s1.t.author_funders)
         IN IF s1.err THEN [f EXCEPT !.s = s1]
            ELSE IF existing_link
                 THEN LinkAuthorFundersEarlyIds([f EXCEPT !.s = s1], Tail(objs))
                 ELSE LinkAuthorFundersEarlyIds(
                        [f EXCEPT !.s = AddObject(s1, "author_funders", key)],
                        Tail(objs))

\* A faulty variant of LinkAuthorFunders: an id that is still None is left
\* out of the filter instead of being compared as IS NULL.
RECURSIVE LinkAuthorFundersSparseFilter(_, _)
LinkAuthorFundersSparseFilter(f, objs) ==
    IF f.s.err \/ objs = <<>> THEN f
    ELSE LET key == <<IdOf(f.s, "authors", f.db_author),
                      IdOf(f.s, "funders", Head(objs)),
                      IdOf(f.s, "papers", f.db_paper)>>
             s1 == Query(f.s)
             existing_link ==
                 /\ ~s1.err
                 /\ \E k \in 1..Len(s1.t.author_funders) :
                       \A c \in 1..3 : key[c] = None
                                           \/ s1.t.author_funders[k][c] = key[c]
             new_link == <<IdOf(s1, "authors", f.db_author),
                           IdOf(s1, "funders", Head(objs)),
                           IdOf(s1, "papers", f.db_paper)>>
         IN IF s1.err THEN [f EXCEPT !.s = s1]
            ELSE IF existing_link
                 THEN LinkAuthorFundersSparseFilter([f EXCEPT !.s = s1], Tail(objs))
                 ELSE LinkAuthorFundersSparseFilter(
                        [f EXCEPT !.s = AddObject(s1, "author_funders", new_link)],
                        Tail(objs))

\* 6. Create the AuthorFunders links.  The filter values are read from the
\* objects before the query runs (and autoflushes); the new link's values
\* are read after it.  A None filter value compares as IS NULL.
RECURSIVE LinkAuthorFunders(_, _)
LinkAuthorFunders(f, objs) ==
    IF f.s.err \/ objs = <<>> THEN f
    ELSE LET key == <<IdOf(f.s, "authors", f.db_author),
                      IdOf(f.s, "funders", Head(objs)),
                      IdOf(f.s, "papers", f.db_paper)>>
             s1 == Query(f.s)
             existing_link == ~s1.err /\ InSeq(key, s1.t.author_funders)
             new_link == <<IdOf(s1, "authors", f.db_author),
                           IdOf(s1, "funders", Head(objs)),
                           IdOf(s1, "papers", f.db_paper)>>
         IN IF s1.err THEN [f EXCEPT !.s = s1]
            ELSE IF existing_link
                 THEN LinkAuthorFunders([f EXCEPT !.s = s1], Tail(objs))
                 ELSE LinkAuthorFunders(
                        [f EXCEPT !.s = AddObject(s1, "author_funders", new_link)],
                        Tail(objs))

\* The values author_id, funder_id, paper_id that filter_by receives in each
\* turn of the loop of step 6, in order.
RECURSIVE FilterValues(_, _)
FilterValues(f, objs) ==
    IF f.s.err \/ objs = <<>> THEN <<>>
    ELSE <<<<IdOf(f.s, "authors", f.db_author),
             IdOf(f.s, "funders", Head(objs)),
             IdOf(f.s, "papers", f.db_paper)>>>>
         \o FilterValues(LinkAuthorFunders(f, <<Head(objs)>>), Tail(objs))

\* A faulty variant of LinkPaperAuthor: the author is appended without
\* looking whether the paper has it.
LinkPaperAuthorUnchecked(f) ==
    IF f.s.err THEN f
    ELSE [f EXCEPT !.p_authors = Append(@, f.db_author),
                   !.s = AddObject(f.s, "paper_authors", <<f.db_paper, f.db_author>>)]

\* 7. Associate the author with the paper (db_paper.authors is lazy).
LinkPaperAuthor(f) ==
    IF f.s.err THEN f
    ELSE LET pending == IdOf(f.s, "papers", f.db_paper) = None
             s1 == IF pending THEN f.s ELSE Query(f.s)
             authors == IF pending \/ s1.err THEN <<>>
                        ELSE RowsOf(s1.t.paper_authors, 1, f.db_paper, 2)
         IN IF s1.err THEN [f EXCEPT !.s = s1]
            ELSE IF InSeq(f.db_author, authors)
                 THEN [f EXCEPT !.s = s1, !.p_authors = authors]
                 ELSE [f EXCEPT !.p_authors = Append(authors, f.db_author),
                                !.s = AddObject(s1, "paper_authors",
                                                <<f.db_paper, f.db_author>>)]

\* Reading db_paper.funders: a lazy load on first use.
LoadPaperFunders(f) ==
    IF f.s.err \/ f.p_loaded THEN f
    ELSE IF IdOf(f.s, "papers", f.db_paper) = None
         THEN [f EXCEPT !.p_loaded = TRUE, !.p_funders = <<>>]
         ELSE LET s1 == Query(f.s) IN
              IF s1.err THEN [f EXCEPT !.s = s1]
              ELSE [f EXCEPT !.s = s1, !.p_loaded = TRUE,
                             !.p_funders = RowsOf(s1.t.paper_funders, 1, f.db_paper, 2)]

\* 8. Associate the paper with its direct funders.
RECURSIVE LinkPaperFunders(_, _)
LinkPaperFunders(f, names) ==
    IF f.s.err \/ names = <<>> THEN f
    ELSE LET m == fuzzy_match_funder(f.s, Head(names))
             new == m.s.err = FALSE /\ m.r = None
             obj == IF new THEN NextId(m.s, "funders") ELSE m.r
             s2 == IF new THEN AddObject(m.s, "funders", Head(names)) ELSE m.s
         IN IF m.s.err THEN [f EXCEPT !.s = m.s]
            ELSE IF InSeq(obj, f.p_funders)
                 THEN LinkPaperFunders([f EXCEPT !.s = s2], Tail(names))
                 ELSE LinkPaperFunders(
                        [f EXCEPT !.p_funders = Append(@, obj),
                                  !.s = AddObject(s2, "paper_funders",
                                                  <<f.db_paper, obj>>)],
                        Tail(names))

\* The body of update_database as far as the loop of step 6.
BeforeAuthorFunders(db, paper, author) ==
    LET f1 == FindOrCreatePaper(db, paper.doi)
        f2 == FindOrCreateAuthor(f1, author.name)
        f3 == FindOrCreateFunders(f2, author.funders)
        f4 == FindOrCreateInstitutions(f3, author.institution)
        f5 == LinkInstitutions(LoadAuthorInstitutions(f4), f4.institutions)
    IN FlushIfPaperNew(f5)

\* The body of update_database, through session.commit(), against a store
\* that answers every statement.
RunUpdate(db, paper, author) ==
    LET f1 == FindOrCreatePaper(db, paper.doi)
        f2 == FindOrCreateAuthor(f1, author.name)
        f3 == FindOrCreateFunders(f2, author.funders)
        f4 == FindOrCreateInstitutions(f3, author.institution)
        f5 == LinkInstitutions(LoadAuthorInstitutions(f4), f4.institutions)
        f6 == LinkAuthorFunders(FlushIfPaperNew(f5), f5.funders)
        f7 == LinkPaperAuthor(f6)
        f8 == IF paper.funders # <<>>
              THEN LinkPaperFunders(LoadPaperFunders(f7), paper.funders)
              ELSE f7
    IN [f8 EXCEPT !.s = Commit(f8.s)]

\* A faulty variant of Returned: what the session wrote before the
\* exception stays in the store.
ReturnedPartial(db, f, failAt) ==
    LET injected == failAt # None /\ failAt <= f.s.ops
        raised == injected \/ f.s.err
        written == IF injected THEN f.s.log[failAt] ELSE f.s.t
    IN [ok |-> ~raised, db |-> written, touched |-> written # db,
        refused |-> IF injected THEN "none" ELSE f.s.refused]

\* How a call whose body ran as f ends when the store fails at statement
\* failAt (None: it never fails).  Statement failAt raises, as does a row the
\* store refuses; `with session_factory() as session` then closes the
\* session, which rolls back what it wrote.
\*   ok       the call returned (it raised otherwise)
\*   db       the committed store after the call
\*   touched  the call's session wrote rows, committed or not
\*   refused  the table whose INSERT the store refused, "none" otherwise
Returned(db, f, failAt) ==
    LET injected == failAt # None /\ failAt <= f.s.ops
        raised == injected \/ f.s.err
        written == IF injected THEN f.s.log[failAt] ELSE f.s.t
    IN [ok |-> ~raised, db |-> IF raised THEN db ELSE f.s.t,
        touched |-> written # db,
        refused |-> IF injected THEN "none" ELSE f.s.refused]

update_database(db, paper, author, failAt) ==
    Returned(db, RunUpdate(db, paper, author), failAt)

\* ---------------------------------------------------------------- inputs
Lists(S, n) == UNION {[1..k -> S] : k \in 0..n}

\* The names an author entry holds: its own and those of its two lists.
AuthorSize(a) == 1 + Len(a.institution) + Len(a.funders)

AuthorEntries(A, I, F, b) ==
    IF b < 1 THEN {}
    ELSE {a \in [name : A, institution : Lists(I, b - 1), funders : Lists(F, b - 1)] :
            AuthorSize(a) <= b}

RECURSIVE AuthorLists(_, _, _, _)
AuthorLists(A, I, F, b) ==
    {<<>>} \cup UNION {{<<a>> \o rest : rest \in AuthorLists(A, I, F, b - AuthorSize(a))} :
                          a \in AuthorEntries(A, I, F, b)}

RECURSIVE SumSizes(_)
SumSizes(authors) ==
    IF authors = <<>> THEN 0 ELSE AuthorSize(Head(authors)) + SumSizes(Tail(authors))

\* The records of real.json that pass validation, as update.py reads them.
ValidRecords ==
    UNION {[doi : DOIs, authors : {as},
            funders : Lists(FunderNames, MaxNames - SumSizes(as))] :
              as \in AuthorLists(AuthorNames, InstitutionNames, FunderNames, MaxNames)}

\* One key of a record is removed.
Defects(r) ==
    {<<"doi">>}
    \cup {<<"funder", j>> : j \in 1..Len(r.funders)}
    \cup {<<"author", i>> : i \in 1..Len(r.authors)}
    \cup UNION {{<<"institution", i, j>> : j \in 1..Len(r.authors[i].institution)} :
                  i \in 1..Len(r.authors)}
    \cup UNION {{<<"author_funder", i, j>> : j \in 1..Len(r.authors[i].funders)} :
                  i \in 1..Len(r.authors)}

Damage(r, d) ==
    CASE d[1] = "doi" -> [r EXCEPT !.doi = Missing]
      [] d[1] = "funder" -> [r EXCEPT !.funders[d[2]] = Missing]
      [] d[1] = "author" -> [r EXCEPT !.authors[d[2]].name = Missing]
      [] d[1] = "institution" -> [r EXCEPT !.authors[d[2]].institution[d[3]] = Missing]
      [] d[1] = "author_funder" -> [r EXCEPT !.authors[d[2]].funders[d[3]] = Missing]

\* What real.json may hold: a well-formed record, or one lacking a key.
RawRecords == ValidRecords \cup UNION {{Damage(r, d) : d \in Defects(r)} : r \in ValidRecords}

\* ---------------------------------------------------------------- schema
\* schema.py: `name: str` and `doi: str` are required fields.
ValidInstitution(x) == x # Missing
ValidFunder(x) == x # Missing

\* A faulty variant of ValidAuthor: the nested lists are not validated.
ValidAuthorShallow(a) == a.name # Missing

ValidAuthor(a) ==
    /\ a.name # Missing
    /\ \A j \in 1..Len(a.institution) : ValidInstitution(a.institution[j])
    /\ \A j \in 1..Len(a.funders) : ValidFunder(a.funders[j])

ValidPaper(raw) ==
    /\ raw.doi # Missing
    /\ \A i \in 1..Len(raw.authors) : ValidAuthor(raw.authors[i])
    /\ \A j \in 1..Len(raw.funders) : ValidFunder(raw.funders[j])

\* ------------------------------------------------------ concurrent writers
\* Two callers of update_database on the one SQLite file (two dashboard
\* sessions, or the dashboard and data_acquisition.py).
MaxCalls == 3

Writers == {1, 2}

Bo == <<"B", "o">>

\* The (paper, author) pairs the writers are called with.
WriterAuthors ==
    {[name |-> Al, institution |-> <<>>, funders |-> <<>>],
     [name |-> Al, institution |-> <<MIT>>, funders |-> <<>>],
     [name |-> Al, institution |-> <<>>, funders |-> <<NSF>>],
     [name |-> Bo, institution |-> <<>>, funders |-> <<>>]}

WriterCalls ==
    {[paper |-> [doi |-> d, authors |-> <<a>>, funders |-> a.funders],
      author |-> a] : d \in DOIs, a \in WriterAuthors}

\* at[w]: where writer w is in update_database (0: not in a call, k in 1..8:
\* about to run step k, 9: about to commit), its arguments and its session;
\* seen: whether the other writer was in a call at any time during this one;
\* lock: the writer whose transaction has written (SQLite admits one), or 0;
\* calls: the calls begun so far.
IdleWriter == [pc |-> 0, call |-> <<>>, f |-> <<>>, seen |-> FALSE]

NoWriters == [at |-> [w \in Writers |-> IdleWriter], lock |-> 0, calls |-> 0]

\* The table each column of a link table refers to.
LinkColumns ==
    [author_institutions |-> <<"authors", "institutions">>,
     institution_funders |-> <<"institutions", "funders">>,
     paper_authors |-> <<"papers", "authors">>,
     paper_funders |-> <<"papers", "funders">>,
     author_funders |-> <<"authors", "funders", "papers">>]

\* An object that is still pending gets its id when it is inserted: while the
\* session has written nothing, rows committed by the other writer come
\* first.
Shift(obj, table, old, new) ==
    IF obj > Len(old[table]) THEN obj + Len(new[table]) - Len(old[table])
    ELSE obj

ShiftAll(objs, table, old, new) ==
    [i \in 1..Len(objs) |-> Shift(objs[i], table, old, new)]

\* The session of a call that has written nothing reads the store as it is
\* committed now (pysqlite opens the transaction at the first INSERT).
Rebase(f, store) ==
    LET old == f.s.t
        item(it) ==
            IF it.k \in EntityTables THEN it
            ELSE [it EXCEPT !.v = [c \in 1..Len(it.v) |->
                                     Shift(it.v[c], LinkColumns[it.k][c], old, store)]]
    IN [f EXCEPT
          !.s = [f.s EXCEPT !.t = store,
                            !.pend = [i \in 1..Len(f.s.pend) |-> item(f.s.pend[i])],
                            !.log = <<>>, !.ops = 0],
          !.db_paper = Shift(@, "papers", old, store),
          !.db_author = Shift(@, "authors", old, store),
          !.funders = ShiftAll(@, "funders", old, store),
          !.institutions = ShiftAll(@, "institutions", old, store),
          !.insts = ShiftAll(@, "institutions", old, store),
          !.p_authors = ShiftAll(@, "authors", old, store),
          !.p_funders = ShiftAll(@, "funders", old, store)]

\* Step k of update_database, and its commit as step 9.
StepOf(k, f, store, call) ==
    CASE k = 1 -> FindOrCreatePaper(store, call.paper.doi)
      [] k = 2 -> FindOrCreateAuthor(f, call.author.name)
      [] k = 3 -> FindOrCreateFunders(f, call.author.funders)
      [] k = 4 -> FindOrCreateInstitutions(f, call.author.institution)
      [] k = 5 -> LinkInstitutions(LoadAuthorInstitutions(f), f.institutions)
      [] k = 6 -> LinkAuthorFunders(FlushIfPaperNew(f), f.funders)
      [] k = 7 -> LinkPaperAuthor(f)
      [] k = 8 -> IF call.paper.funders # <<>>
                  THEN LinkPaperFunders(LoadPaperFunders(f), call.paper.funders)
                  ELSE f
      [] k = 9 -> [f EXCEPT !.s = Commit(f.s)]

\* ----------------------------------------------------------------- state
\* db       the committed store
\* writers  the concurrent callers of update_database (see above)
\* cache    what st.cache_data holds for load_data: <<>> or <<authors>>
\* runs     loads made so far (script runs, button presses)
\* pc       "idle"; "loop": a caller is in its loop over paper.authors;
\*          "done": the caller has finished with its input
\* caller   who loads: "script" (update.py), "dashboard" (app.py, through
\*          add_paper_to_db) or "ingest" (data_acquisition.py run as a
\*          program, through add_paper_to_db); "none" when idle
\* paper    the PaperSchema being upserted (NoPaper when there is none)
\* results  whether each update_database call made for this paper returned;
\*          the next call is for paper.authors[Len(results) + 1]
\* last     the last step: op, its outcome, whether the session of the last
\*          update_database call wrote rows, which table refused a row of
\*          its, the message the dashboard shows, the URL a fetch
\*          requested and, for a fetch on its own, its argument and the
\*          response it got
VARIABLES db, runs, pc, caller, paper, results, last, writers, cache

vars == <<db, runs, pc, caller, paper, results, last, writers, cache>>

NoPaper == [doi |-> Missing, authors |-> <<>>, funders |-> <<>>]

Nothing ==
    [op |-> "none", outcome |-> "none", touched |-> FALSE, refused |-> "none",
     msg |-> "none", url |-> <<>>, request |-> <<>>,
     session |-> "none", view |-> <<>>]

Init ==
    /\ db = Schema
    /\ runs = 0
    /\ pc = "idle"
    /\ caller = "none"
    /\ paper = NoPaper
    /\ results = <<>>
    /\ last = Nothing
    /\ writers = NoWriters
    /\ cache = <<>>

\* update.py: the schema objects are built from the whole record first, and
\* only then does the loop over the authors start.  A record that fails
\* validation raises before the loop; a paper without authors loops zero
\* times.
RunScript(raw) ==
    /\ pc = "idle"
    /\ UNCHANGED <<writers, cache>>
    /\ runs < MaxRuns
    /\ runs' = runs + 1
    /\ caller' = "script"
    /\ db' = db
    /\ results' = <<>>
    /\ IF ~ValidPaper(raw)
       THEN /\ pc' = "done"
            /\ paper' = NoPaper
            /\ last' = [Nothing EXCEPT !.op = "script", !.outcome = "rejected"]
       ELSE /\ pc' = IF raw.authors = <<>> THEN "done" ELSE "loop"
            /\ paper' = raw
            /\ last' = [Nothing EXCEPT !.op = "script", !.outcome = "loaded"]

\* A faulty variant of LoopOver: add_paper_to_db raises the exception again,
\* so the first failed call ends the loop for every caller.
LoopOverOnError(who, ok, called, total) == ~ok \/ called = total

\* Whether the caller's loop over the authors is over after a call: the
\* scripts have no handler, so an exception ends them; add_paper_to_db catches
\* it and goes on to the next author.
LoopOver(who, ok, called, total) == (who = "script" /\ ~ok) \/ called = total

\* One iteration of the caller's loop: update_database(paper, author), whose
\* store may fail at any one statement.  The script has no handler, so an
\* exception ends it; add_paper_to_db catches it and goes on to the next
\* author, and the dashboard reports success when add_paper_to_db returns.
UpdateDatabase ==
    /\ pc = "loop"
    /\ UNCHANGED writers
    /\ \E f \in {RunUpdate(db, paper, paper.authors[Len(results) + 1])} :
       \E failAt \in 0..f.s.ops :
       \E r \in {Returned(db, f, failAt)} :
       \E over \in {LoopOver(caller, r.ok, Len(results) + 1, Len(paper.authors))} :
          /\ db' = r.db
          /\ results' = Append(results, r.ok)
          /\ pc' = IF over THEN "done" ELSE "loop"
          /\ last' = [op |-> "update",
                      outcome |-> IF r.ok THEN "committed" ELSE "raised",
                      touched |-> r.touched,
                      refused |-> r.refused,
                      msg |-> IF over /\ caller = "dashboard"
                              THEN "success" ELSE "none",
                      url |-> <<>>, request |-> <<>>,
                      session |-> "closed", view |-> <<>>]
          /\ cache' = IF over /\ caller = "dashboard" THEN <<>> ELSE cache
    /\ UNCHANGED <<runs, caller, paper>>

\* The caller is through with its input: the script exits, the dashboard
\* reruns.
Finish ==
    /\ pc = "done"
    /\ UNCHANGED <<writers, cache>>
    /\ pc' = "idle"
    /\ caller' = "none"
    /\ paper' = NoPaper
    /\ results' = <<>>
    /\ last' = Nothing
    /\ UNCHANGED <<db, runs>>

Next ==
    \/ \E raw \in RawRecords : RunScript(raw)
    \/ UpdateDatabase
    \/ Finish

Spec == Init /\ [][Next]_vars

\* ---------------------------------------------------------------- ingestion
\* A string doi is a sequence of tokens; the resolvable-URL prefix is one.
\* A faulty variant of StripPrefix: the doi is used as typed.
KeepPrefix(doi) == doi

StripPrefix(doi) ==
    IF doi # <<>> /\ Head(doi) = DoiPrefix THEN Tail(doi) ELSE doi

api_url(doi) == <<"https://api.openalex.org/works/doi:">> \o StripPrefix(doi)

\* What requests.get and response.json() can come to.
FailKinds == {"http404", "http_error", "transport", "bad_json"}

\* The works the remote service may describe: each authorship has a display
\* name and institutions, the work has grants; any display name may be absent.
Authorships(b) ==
    IF b < 1 THEN {}
    ELSE [display_name : {Al, AL, Missing},
          institutions : Lists({MIT, Missing}, IF b > 1 THEN 1 ELSE 0)]

AuthorshipSize(a) == 1 + Len(a.institutions)

RECURSIVE AuthorshipLists(_)
AuthorshipLists(b) ==
    {<<>>} \cup UNION {{<<a>> \o rest : rest \in AuthorshipLists(b - AuthorshipSize(a))} :
                          a \in {x \in Authorships(b) : AuthorshipSize(x) <= b}}

RECURSIVE SumAuthorships(_)
SumAuthorships(as) ==
    IF as = <<>> THEN 0 ELSE AuthorshipSize(Head(as)) + SumAuthorships(Tail(as))

WorkDois == {Missing} \cup {<<DoiPrefix>> \o d : d \in DOIs} \cup {<<"10.1/x">>}

Works ==
    UNION {[doi : WorkDois, authorships : {as},
            grants : Lists({NSF, N_F, Missing}, MaxNames - SumAuthorships(as))] :
              as \in AuthorshipLists(MaxNames)}

\* The body an error response carries; the code does not read it.
ErrorBodies ==
    {w \in Works : w.doi = Missing /\ Len(w.authorships) = 1 /\ w.grants = <<>>
                   /\ w.authorships[1].display_name = Al}

Responses == [kind : {"ok"}, data : Works] \cup [kind : FailKinds, data : ErrorBodies]

\* What the user may type into the DOI field.
DoiInputs == {<<>>} \cup DOIs \cup {<<DoiPrefix>> \o d : d \in DOIs}

test_doi == <<"10.1038/s41586-021-03491-6">>

\* A faulty variant of FunderSchemas: a name is appended again each time a
\* grant repeats it.
RECURSIVE FunderSchemasRepeated(_, _)
FunderSchemasRepeated(grants, sofar) ==
    IF grants = <<>> THEN sofar
    ELSE FunderSchemasRepeated(Tail(grants),
                               IF Head(grants) # Missing
                               THEN Append(sofar, Head(grants)) ELSE sofar)

\* The truthy names of a list, each once, in order of first appearance.
RECURSIVE FunderSchemas(_, _)
FunderSchemas(grants, sofar) ==
    IF grants = <<>> THEN sofar
    ELSE FunderSchemas(Tail(grants),
                       IF Head(grants) # Missing /\ ~InSeq(Head(grants), sofar)
                       THEN Append(sofar, Head(grants)) ELSE sofar)

RECURSIVE InstitutionSchemas(_)
InstitutionSchemas(affiliations) ==
    IF affiliations = <<>> THEN <<>>
    ELSE (IF Head(affiliations) # Missing THEN <<Head(affiliations)>> ELSE <<>>)
         \o InstitutionSchemas(Tail(affiliations))

RECURSIVE AuthorSchemas(_, _)
AuthorSchemas(authorships, grants) ==
    IF authorships = <<>> THEN <<>>
    ELSE (IF Head(authorships).display_name = Missing THEN <<>>
          ELSE <<[name |-> Head(authorships).display_name,
                  institution |-> InstitutionSchemas(Head(authorships).institutions),
                  funders |-> FunderSchemas(grants, <<>>)]>>)
         \o AuthorSchemas(Tail(authorships), grants)

\* The transformation of a decoded body into a PaperSchema.
Transform(doi, data) ==
    [doi |-> IF data.doi # Missing /\ Head(data.doi) = DoiPrefix
             THEN Tail(data.doi) ELSE StripPrefix(doi),
     authors |-> AuthorSchemas(data.authorships, data.grants),
     funders |-> FunderSchemas(data.grants, <<>>)]

\* A faulty variant of fetch_paper_data_from_openalex: no raise_for_status,
\* so the body of an error response is transformed like any other.
fetch_ignoring_status(doi, resp) ==
    IF resp.kind \in {"transport", "bad_json"} THEN <<>>
    ELSE <<Transform(doi, resp.data)>>

\* fetch_paper_data_from_openalex: Optional[PaperSchema] as a sequence of at
\* most one record, <<>> standing for None.
fetch_paper_data_from_openalex(doi, resp) ==
    CASE resp.kind \in {"http404", "http_error"} -> <<>>
      [] resp.kind = "transport" -> <<>>
      [] resp.kind = "bad_json" -> <<>>
      [] OTHER -> <<Transform(doi, resp.data)>>

\* A faulty variant of EntersLoop: only a falsy schema returns at once.
EntersLoopAnyRecord(got) == got # <<>>

\* add_paper_to_db up to its loop: a falsy schema or an empty author list
\* returns at once.
EntersLoop(got) == got # <<>> /\ got[1].authors # <<>>

\* A faulty variant of LoadAuthors: authors are joined to their institutions
\* by an inner join, which loses the authors that have none.
LoadAuthorsInnerJoin(store) ==
    LET with == SelectSeq([i \in 1..Len(store.authors) |-> i],
                          LAMBDA i : RowsOf(store.author_institutions, 1, i, 2) # <<>>)
    IN [n \in 1..Len(with) |->
          [name |-> store.authors[with[n]],
           institutions |->
              LET ids == RowsOf(store.author_institutions, 1, with[n], 2)
              IN [k \in 1..Len(ids) |-> store.institutions[ids[k]]],
           author_funder_associations |->
              LET ids == RowsOf(store.author_funders, 1, with[n], 2)
              IN [k \in 1..Len(ids) |-> [funder |-> <<store.funders[ids[k]]>>]]]]

\* What a session's query of Author returns with joinedload of institutions
\* and of author_funder_associations and their funder: one object per
\* authors row, its collections filled from the link tables.  An association
\* whose funder row does not exist carries None.
LoadAuthors(store) ==
    [i \in 1..Len(store.authors) |->
        [name |-> store.authors[i],
         institutions |->
            LET ids == RowsOf(store.author_institutions, 1, i, 2)
            IN [k \in 1..Len(ids) |-> store.institutions[ids[k]]],
         author_funder_associations |->
            LET ids == RowsOf(store.author_funders, 1, i, 2)
            IN [k \in 1..Len(ids) |->
                   [funder |-> IF ids[k] \in 1..Len(store.funders)
                               THEN <<store.funders[ids[k]]>> ELSE <<>>]]]]

\* app.py's fetch_data: the session is closed in the finally clause, whether
\* the query returns or raises.
fetch_data(store, fails) ==
    IF fails THEN [ok |-> FALSE, authors |-> <<>>, session |-> "closed"]
    ELSE [ok |-> TRUE, authors |-> LoadAuthors(store), session |-> "closed"]

\* app2.py's fetch_data: joinedload(Author.funders) names a relationship that
\* Author does not have, so the statement raises after the session was made;
\* session.close() is the statement after it, outside any finally.
fetch_data_app2(store) ==
    [ok |-> FALSE, authors |-> <<>>, session |-> "open"]

\* load_data under st.cache_data: the cached value when there is one, else
\* what fetch_data returns, which is then cached; there is no expiry.
load_data(cached, store, fails) ==
    IF cached # <<>>
    THEN [ok |-> TRUE, authors |-> cached[1], session |-> "none", cache |-> cached]
    ELSE LET got == fetch_data(store, fails)
         IN [ok |-> got.ok, authors |-> got.authors, session |-> got.session,
             cache |-> IF got.ok THEN <<got.authors>> ELSE <<>>]

\* The button "Fetch and Add Paper Data" of the dashboard.  The script run
\* that handles it has called load_data() before; when the fetch gives a
\* record, add_paper_to_db is called and load_data.clear() follows its return
\* (in UpdateDatabase when the loop has authors to go through).
FetchAndAdd(doi_input, resp) ==
    /\ pc = "idle"
    /\ UNCHANGED writers
    /\ runs < MaxRuns
    /\ runs' = runs + 1
    /\ caller' = "dashboard"
    /\ db' = db
    /\ results' = <<>>
    /\ \E loaded \in {load_data(cache, db, FALSE).cache} :
       IF doi_input = <<>>
       THEN /\ pc' = "done"
            /\ paper' = NoPaper
            /\ cache' = loaded
            /\ last' = [Nothing EXCEPT !.op = "fetch", !.outcome = "no_input",
                                       !.msg = "warning"]
       ELSE \E got \in {fetch_paper_data_from_openalex(doi_input, resp)} :
            /\ pc' = IF EntersLoop(got) THEN "loop" ELSE "done"
            /\ paper' = IF got = <<>> THEN NoPaper ELSE got[1]
            /\ cache' = IF got # <<>> /\ ~EntersLoop(got) THEN <<>> ELSE loaded
            /\ last' = [Nothing EXCEPT !.op = "fetch", !.outcome = resp.kind,
                                       !.url = api_url(doi_input),
                                       !.msg = IF got = <<>> THEN "error"
                                               ELSE IF EntersLoop(got) THEN "none"
                                               ELSE "success"]

\* data_acquisition.py run as a program.
Main(resp) ==
    /\ pc = "idle"
    /\ UNCHANGED <<writers, cache>>
    /\ runs < MaxRuns
    /\ runs' = runs + 1
    /\ caller' = "ingest"
    /\ db' = db
    /\ results' = <<>>
    /\ \E got \in {fetch_paper_data_from_openalex(test_doi, resp)} :
          /\ pc' = IF EntersLoop(got) THEN "loop" ELSE "done"
          /\ paper' = IF got = <<>> THEN NoPaper ELSE got[1]
          /\ last' = [Nothing EXCEPT !.op = "fetch", !.outcome = resp.kind,
                                     !.url = api_url(test_doi)]

NextIngest ==
    \/ \E doi_input \in DoiInputs, resp \in Responses : FetchAndAdd(doi_input, resp)
    \/ \E resp \in Responses : Main(resp)
    \/ UpdateDatabase
    \/ Finish

SpecIngest == Init /\ [][NextIngest]_vars

\* fetch_paper_data_from_openalex on its own: one call with any doi and any
\* response, its argument and response kept beside its result.
Fetch(doi, resp) ==
    /\ pc = "idle"
    /\ UNCHANGED <<writers, cache>>
    /\ pc' = "done"
    /\ \E got \in {fetch_paper_data_from_openalex(doi, resp)} :
          paper' = IF got = <<>> THEN NoPaper ELSE got[1]
    /\ last' = [Nothing EXCEPT !.op = "fetch", !.outcome = resp.kind,
                               !.url = api_url(doi), !.request = <<doi, resp>>]
    /\ UNCHANGED <<db, runs, caller, results>>

NextFetch ==
    \/ \E doi \in (DoiInputs \ {<<>>}) \cup {test_doi}, resp \in Responses :
          Fetch(doi, resp)
    \/ Finish

SpecFetch == Init /\ [][NextFetch]_vars

\* ------------------------------------------------------ the dashboard's reads
\* networkx: a graph is its nodes with their type attribute and its
\* undirected edges (a set of one or two node names each).
EmptyGraph == [type |-> <<>>, edges |-> {}]

Nodes(G) == DOMAIN G.type

\* A faulty variant of add_node: a node that exists keeps its attributes.
add_node_once(G, n, t) ==
    [G EXCEPT !.type = [m \in DOMAIN G.type \cup {n} |->
                            IF m \in DOMAIN G.type THEN G.type[m] ELSE t]]

add_node(G, n, t) ==
    [G EXCEPT !.type = [m \in DOMAIN G.type \cup {n} |->
                            IF m = n THEN t ELSE G.type[m]]]

add_edge(G, u, v) == [G EXCEPT !.edges = @ \cup {{u, v}}]

RECURSIVE AddInstitutions(_, _, _)
AddInstitutions(G, author, k) ==
    IF k > Len(author.institutions) THEN G
    ELSE AddInstitutions(
            add_edge(add_node(G, author.institutions[k], "institution"),
                     author.name, author.institutions[k]),
            author, k + 1)

RECURSIVE AddFunders(_, _, _)
AddFunders(G, author, k) ==
    IF k > Len(author.author_funder_associations) THEN G
    ELSE LET funder == author.author_funder_associations[k].funder
         IN AddFunders(
               IF funder # <<>>
               THEN add_edge(add_node(G, funder[1], "funder"),
                             author.name, funder[1])
               ELSE G,
               author, k + 1)

RECURSIVE AddAuthors(_, _, _)
AddAuthors(G, authors, i) ==
    IF i > Len(authors) THEN G
    ELSE AddAuthors(
            AddFunders(
               AddInstitutions(add_node(G, authors[i].name, "author"),
                               authors[i], 1),
               authors[i], 1),
            authors, i + 1)

create_network_graph(authors) == AddAuthors(EmptyGraph, authors, 1)

neighbors(G, n) == {m \in Nodes(G) : {n, m} \in G.edges}

subgraph(G, keep) ==
    [type |-> [n \in Nodes(G) \cap keep |-> G.type[n]],
     edges |-> {e \in G.edges : e \subseteq keep}]

\* Python's  sub in text.
Contains(text, sub) ==
    \E i \in 1..(Len(text) - Len(sub) + 1) :
        SubSeq(text, i, i + Len(sub) - 1) = sub

\* A variant of the test that compares the characters as typed.
MatchesAsTyped(search_query, node) == Contains(node, search_query)

\* search_query.lower() in str(node).lower()
Matches(search_query, node) == Contains(Lower(node), Lower(search_query))

\* The search filter: the graph that is displayed for search_query.
Filter(main_graph, search_query) ==
    IF search_query = <<>> THEN main_graph
    ELSE LET matched_nodes_in_graph ==
                 {n \in Nodes(main_graph) : Matches(search_query, n)}
         IN IF matched_nodes_in_graph # {}
            THEN subgraph(main_graph,
                          matched_nodes_in_graph \cup
                          UNION {neighbors(main_graph, n) :
                                   n \in matched_nodes_in_graph})
            ELSE EmptyGraph

\* What may be typed into the search box.
Queries == {<<>>, <<"a">>, <<"A", "L">>, <<"n">>, <<"M", "I">>, <<"_">>, <<"z">>}

\* One run of app.py's script without the button: the data are loaded, the
\* graph is built, filtered by search_query and displayed.
Render(search_query, fails) ==
    /\ pc = "idle"
    /\ UNCHANGED writers
    /\ pc' = "done"
    /\ \E got \in {load_data(cache, db, fails)} :
       \E main_graph \in {create_network_graph(got.authors)} :
          /\ cache' = got.cache
          /\ last' = [Nothing EXCEPT
                        !.op = "render",
                        !.outcome = IF got.ok THEN "ok" ELSE "raised",
                        !.request = <<search_query>>,
                        !.session = got.session,
                        !.view = IF got.ok
                                 THEN <<main_graph, Filter(main_graph, search_query)>>
                                 ELSE <<>>]
    /\ UNCHANGED <<db, runs, caller, paper, results>>

\* One run of app2.py's script as far as its first read.
Render2 ==
    /\ pc = "idle"
    /\ UNCHANGED <<writers, cache>>
    /\ pc' = "done"
    /\ \E got \in {fetch_data_app2(db)} :
          last' = [Nothing EXCEPT
                     !.op = "render2",
                     !.outcome = IF got.ok THEN "ok" ELSE "raised",
                     !.session = got.session]
    /\ UNCHANGED <<db, runs, caller, paper, results>>

NextView ==
    \/ \E doi_input \in DoiInputs, resp \in Responses : FetchAndAdd(doi_input, resp)
    \/ UpdateDatabase
    \/ \E search_query \in Queries, fails \in BOOLEAN : Render(search_query, fails)
    \/ Render2
    \/ Finish

SpecView == Init /\ [][NextView]_vars

\* -------------------------------------------------- two writers, interleaved
\* Writer w is called with (paper, author).
Begin(w, call) ==
    /\ writers.at[w].pc = 0
    /\ writers.calls < MaxCalls
    /\ \E busy \in {\E v \in Writers \ {w} : writers.at[v].pc # 0} :
          writers' = [writers EXCEPT
                        !.calls = @ + 1,
                        !.at = [v \in Writers |->
                                  IF v = w
                                  THEN [pc |-> 1, call |-> <<call>>, f |-> <<>>,
                                        seen |-> busy]
                                  ELSE [writers.at[v] EXCEPT
                                          !.seen = @ \/ writers.at[v].pc # 0]]]
    /\ UNCHANGED <<db, runs, pc, caller, paper, results, last, cache>>

\* Writer w runs its next step.  Each step is taken at once; a step that
\* writes waits while the other writer's transaction holds the write lock.
\* An exception rolls back, the commit publishes the session's rows; either
\* way the with block closes the session and the lock is free.
WriterStep(w) ==
    /\ writers.at[w].pc \in 1..9
    /\ \E me \in {writers.at[w]} :
       \E mine \in {writers.lock = w} :
       \E fin \in {IF me.pc = 1 THEN <<>>
                   ELSE IF mine THEN me.f
                   ELSE <<Rebase(me.f[1], db)>>} :
       \E base \in {IF mine THEN me.f[1].s.t ELSE db} :
       \E fout \in {StepOf(me.pc, IF fin = <<>> THEN fin ELSE fin[1], db,
                          me.call[1])} :
       \E writes \in {fout.s.t # base \/ fout.s.refused # "none"} :
          /\ writes => writers.lock \in {0, w}
          /\ IF fout.s.err \/ me.pc = 9
             THEN /\ db' = IF fout.s.err THEN db ELSE fout.s.t
                  /\ writers' = [writers EXCEPT
                                   !.at[w] = IdleWriter,
                                   !.lock = IF mine THEN 0 ELSE @]
                  /\ last' = [Nothing EXCEPT
                                !.op = "update",
                                !.outcome = IF fout.s.err THEN "raised"
                                            ELSE "committed",
                                !.touched = ~fout.s.err /\ fout.s.t # db,
                                !.refused = fout.s.refused,
                                !.session = "closed"]
             ELSE /\ db' = db
                  /\ writers' = [writers EXCEPT
                                   !.at[w] = [me EXCEPT
                                                !.pc = @ + 1,
                                                !.f = <<[fout EXCEPT
                                                           !.s.log = <<>>,
                                                           !.s.ops = 0]>>],
                                   !.lock = IF writes THEN w ELSE @]
                  /\ last' = last
    /\ UNCHANGED <<runs, pc, caller, paper, results, cache>>

NextWriters ==
    \/ \E w \in Writers, call \in WriterCalls : Begin(w, call)
    \/ \E w \in Writers : WriterStep(w)

SpecWriters == Init /\ [][NextWriters]_vars

\* ------------------------------------------------ the dashboard and a script
\* The records of the file a script is run on.
ScriptSample ==
    {r \in ValidRecords :
        /\ Len(r.authors) = 1
        /\ r.funders = <<>>
        /\ r.authors[1].name = Al
        /\ r.authors[1].institution \in {<<>>, <<MIT>>}
        /\ r.authors[1].funders \in {<<>>, <<NSF>>}}

NextRefresh ==
    \/ \E raw \in ScriptSample : RunScript(raw)
    \/ \E doi_input \in DoiInputs, resp \in Responses : FetchAndAdd(doi_input, resp)
    \/ UpdateDatabase
    \/ \E search_query \in {<<>>, <<"n">>}, fails \in BOOLEAN :
          Render(search_query, fails)
    \/ Finish

SpecRefresh == Init /\ [][NextRefresh]_vars

\* ------------------------------------------- two writers, one funding triple
\* The first call stores a paper, its author and its paper-level funder; the
\* second names that funder for that author.
TripleCalls ==
    {[paper |-> [doi |-> d, authors |-> <<a>>, funders |-> <<NSF>>], author |-> a] :
        d \in DOIs,
        a \in {[name |-> Al, institution |-> <<>>, funders |-> <<>>],
               [name |-> Al, institution |-> <<>>, funders |-> <<NSF>>]}}

NextTriple ==
    \/ \E w \in Writers, call \in TripleCalls : Begin(w, call)
    \/ \E w \in Writers : WriterStep(w)

SpecTriple == Init /\ [][NextTriple]_vars

\* --------------------------------------------- entities that share a name
\* Calls whose author, institution and funder names coincide; two of them
\* may overlap and leave two rows of a name (see the concurrent writers).
NamesakeCalls ==
    {[paper |-> [doi |-> <<"10.1/x">>, authors |-> <<a>>, funders |-> <<>>],
      author |-> a] :
        a \in {[name |-> MIT, institution |-> <<>>, funders |-> <<>>],
               [name |-> Al, institution |-> <<MIT>>, funders |-> <<MIT>>]}}

NextNames ==
    \/ \E w \in Writers, call \in NamesakeCalls : Begin(w, call)
    \/ \E w \in Writers : WriterStep(w)
    \/ \E fails \in BOOLEAN : Render(<<>>, fails)
    \/ Finish

SpecNames == Init /\ [][NextNames]_vars

\* ------------------------------------------------------------- properties
\* A call has returned for paper.authors[Len(results)].
Called == results # <<>>
LastAuthor == paper.authors[Len(results)]
LastOk == results[Len(results)]

NoRepeat(rows) == \A i, j \in 1..Len(rows) : i # j => rows[i] # rows[j]
NoRepeatFolded(rows) ==
    \A i, j \in 1..Len(rows) : i # j => ~SameFolded(rows[i], rows[j])
DistinctFolded(names) == Cardinality({Lower(names[i]) : i \in 1..Len(names)})

\* C1: idempotence of update_database.  In every reachable store and for
\* every (paper, author) record about to be upserted, the call commits, and
\* calling it again with the same record commits and leaves every entity and
\* edge table exactly as the first call left it.
IdempotentUpsert ==
    pc = "loop" =>
        \A a \in {paper.authors[Len(results) + 1]} :
        \A once \in {update_database(db, paper, a, None)} :
        \A twice \in {update_database(once.db, paper, a, None)} :
            once.ok /\ twice.ok /\ twice.db = once.db

\* C1 witness: one paper lists the same author record twice; both calls
\* committed, the first wrote rows and the second wrote none.
UpsertedTwice ==
    /\ results = <<TRUE, TRUE>>
    /\ paper.authors[1] = paper.authors[2]
    /\ ~last.touched
    /\ db.papers = <<paper.doi>>
    /\ Len(db.paper_authors) = 1

\* C2: no duplicate entities.  No two Author rows, no two Funder rows and no
\* two Institution rows have names that are equal ignoring letter case, and
\* no two Paper rows have the same doi.
NoDuplicateEntities ==
    /\ NoRepeatFolded(db.authors)
    /\ NoRepeatFolded(db.funders)
    /\ NoRepeatFolded(db.institutions)
    /\ NoRepeat(db.papers)

\* C2 witness: the first call named one funder at author level and the same
\* funder in another letter case at paper level, and one Funder row exists.
RepeatedFunderOneRow ==
    /\ runs = 1
    /\ results = <<TRUE>>
    /\ LastAuthor.funders = <<NSF>>
    /\ paper.funders = <<nsf>>
    /\ db.funders = <<NSF>>

\* C3: no duplicate edges.  Each (author, institution), (paper, author) and
\* (paper, funder) pair is in its junction table at most once, and that is
\* the code's doing: no call has the store refuse a pair it inserts twice.
NoDuplicateEdges ==
    /\ NoRepeat(db.author_institutions)
    /\ NoRepeat(db.paper_authors)
    /\ NoRepeat(db.paper_funders)
    /\ last.refused \notin {"author_institutions", "paper_authors", "paper_funders"}

\* C3 witness: a committed call named the same institution twice (in two
\* letter cases) and the author has one institution edge.
RepeatedInstitutionOneEdge ==
    /\ Called /\ LastOk
    /\ LastAuthor.institution = <<MIT, mit>>
    /\ db.author_institutions = <<<<1, 1>>>>

\* C4: three-way association uniqueness.  Each (author, funder, paper) triple
\* has at most one AuthorFunders row, and no call has the store refuse a
\* triple: a triple that is there is not inserted again.
ThreeWayUnique ==
    /\ NoRepeat(db.author_funders)
    /\ last.refused # "author_funders"

\* C4 witness: in a second run a call with a funded author committed without
\* writing anything, and the triple it names has its one row.
TripleUpsertedAgain ==
    /\ runs = 2
    /\ Called /\ LastOk
    /\ ~last.touched
    /\ LastAuthor.funders # <<>>
    /\ Len(db.author_funders) = 1

\* C5: all-or-nothing per call.  When an update_database call raises, at
\* whichever statement, the committed store is the store from before it.
AllOrNothing ==
    [][(results' # results /\ results' # <<>> /\ ~results'[Len(results')])
          => db' = db]_vars

\* C5 witness: a call raised after its session had written rows, and the
\* store is still empty.
RolledBack ==
    /\ Called /\ ~LastOk
    /\ last.touched
    /\ db = Schema

\* C6: case-insensitive resolution.  For each kind, when a row's name equals
\* the probed name up to letter case, the resolver returns a row, not None.
CaseInsensitiveResolution ==
    \A n \in ProbeNames :
        /\ (\E i \in 1..Len(db.authors) : SameFolded(db.authors[i], n))
              => fuzzy_match_author(NewSession(db), n).r # None
        /\ (\E i \in 1..Len(db.funders) : SameFolded(db.funders[i], n))
              => fuzzy_match_funder(NewSession(db), n).r # None
        /\ (\E i \in 1..Len(db.institutions) : SameFolded(db.institutions[i], n))
              => fuzzy_match_institution(NewSession(db), n).r # None

\* C6 witness: a paper's second author is its first in another letter case;
\* both calls committed, the resolver returns the first row for the second
\* spelling and no second Author row exists.
CaseVariantResolved ==
    /\ results = <<TRUE, TRUE>>
    /\ paper.authors[1].name = Al
    /\ paper.authors[2].name = AL
    /\ db.authors = <<Al>>
    /\ fuzzy_match_author(NewSession(db), AL).r = 1

\* C7 (as claimed): exact match only.  The resolver returns a row only if
\* the row's name equals the probed name after case folding, and returns
\* None when no row has such a name.
ExactMatchOnly ==
    \A n \in ProbeNames :
        /\ \A r \in {fuzzy_match_author(NewSession(db), n).r} :
              IF r # None THEN SameFolded(db.authors[r], n)
              ELSE \A i \in 1..Len(db.authors) : ~SameFolded(db.authors[i], n)
        /\ \A r \in {fuzzy_match_funder(NewSession(db), n).r} :
              IF r # None THEN SameFolded(db.funders[r], n)
              ELSE \A i \in 1..Len(db.funders) : ~SameFolded(db.funders[i], n)
        /\ \A r \in {fuzzy_match_institution(NewSession(db), n).r} :
              IF r # None THEN SameFolded(db.institutions[r], n)
              ELSE \A i \in 1..Len(db.institutions) : ~SameFolded(db.institutions[i], n)

\* The record of end-to-end scenario 1 and the store it is to produce.
Alice == <<"A", "l", "i", "c", "e">>
DARPA == <<"D", "A", "R", "P", "A">>
ScenarioAuthor == [name |-> Alice, institution |-> <<MIT>>, funders |-> <<NSF>>]
ScenarioPaper ==
    [doi |-> <<"10.1/x">>, authors |-> <<ScenarioAuthor>>, funders |-> <<DARPA>>]
ScenarioStore ==
    [Schema EXCEPT !.papers = <<<<"10.1/x">>>>, !.authors = <<Alice>>,
                   !.institutions = <<MIT>>, !.funders = <<NSF, DARPA>>,
                   !.author_institutions = <<<<1, 1>>>>,
                   !.paper_authors = <<<<1, 1>>>>,
                   !.paper_funders = <<<<1, 2>>>>,
                   !.author_funders = <<<<1, 1, 1>>>>]

\* C8 (as claimed): scenario 1 yields its store, and after the first call on
\* an empty store the row counts are the numbers of distinct names of the
\* record: one paper, one author, the distinct institutions, the distinct
\* funders of both funder lists.
FirstCallRowCounts ==
    /\ update_database(Schema, ScenarioPaper, ScenarioAuthor, None)
          = [ok |-> TRUE, db |-> ScenarioStore, touched |-> TRUE, refused |-> "none"]
    /\ (runs = 1 /\ results = <<TRUE>>) =>
          /\ Len(db.papers) = 1
          /\ Len(db.authors) = 1
          /\ Len(db.institutions) = DistinctFolded(LastAuthor.institution)
          /\ Len(db.funders) = DistinctFolded(LastAuthor.funders \o paper.funders)

\* A record that lacks no doi and no name.
WellFormed(p) ==
    /\ p.doi # Missing
    /\ \A j \in 1..Len(p.funders) : p.funders[j] # Missing
    /\ \A i \in 1..Len(p.authors) :
          /\ p.authors[i].name # Missing
          /\ \A j \in 1..Len(p.authors[i].institution) :
                p.authors[i].institution[j] # Missing
          /\ \A j \in 1..Len(p.authors[i].funders) :
                p.authors[i].funders[j] # Missing

\* C9: validation before mutation.  The only records the script goes on
\* with lack no doi and no name; any other is rejected while the schema
\* objects are built: the script ends there, in an error, with no
\* update_database call made and the store as it was.
ValidationBeforeMutation ==
    [][/\ paper' # NoPaper => WellFormed(paper')
       /\ (last'.outcome = "rejected" /\ runs' # runs)
             => (db' = db /\ pc' = "done" /\ results' = <<>> /\ paper' = NoPaper)]_vars

\* C9 witness: a script run on a non-empty store ended with its record
\* rejected and no call made.
RecordRejected ==
    /\ last.op = "script" /\ last.outcome = "rejected"
    /\ pc = "done" /\ results = <<>>
    /\ db # Schema

\* C10: ingestion failure is absorbed.  For every failing outcome of the
\* remote lookup (404, another HTTP error status, a transport exception, an
\* undecodable body) fetch_paper_data_from_openalex returns None, and the
\* dashboard and the program then make no update_database call and leave the
\* store as it was; the dashboard shows the error message.
IngestionFailureAbsorbed ==
    [][(runs' # runs /\ last'.outcome \in FailKinds) =>
          /\ \A d \in DoiInputs \cup {test_doi}, body \in ErrorBodies :
                fetch_paper_data_from_openalex(d, [kind |-> last'.outcome, data |-> body]) = <<>>
          /\ db' = db
          /\ pc' = "done" /\ results' = <<>> /\ paper' = NoPaper
          /\ caller' = "dashboard" => last'.msg = "error"]_vars

\* C10 witness: on a non-empty store the dashboard's lookup ended in a 404
\* and the handler is through, with no call made.
LookupFailed ==
    /\ caller = "dashboard" /\ last.op = "fetch" /\ last.outcome = "http404"
    /\ last.msg = "error"
    /\ pc = "done" /\ results = <<>>
    /\ db # Schema

\* C11: foreign-key integrity.  In every committed store each AuthorFunders
\* row has an author_id, a funder_id and a paper_id that are not null and
\* are the ids of rows of authors, funders and papers; the ids are assigned
\* by the time the link is built, so the store never refuses a link of a
\* call for a missing id.
ForeignKeyIntegrity ==
    /\ \A i \in 1..Len(db.author_funders) :
          /\ ~HasNull(db.author_funders[i])
          /\ db.author_funders[i][1] \in 1..Len(db.authors)
          /\ db.author_funders[i][2] \in 1..Len(db.funders)
          /\ db.author_funders[i][3] \in 1..Len(db.papers)
    /\ (Called /\ ~LastOk) => last.refused = "none"

\* C11 witness: a second run upserted a known author, without institutions,
\* with a funder that was new; the funder's row was still unwritten when the
\* link's filter was built, and the link committed with the funder's id.
LinkToFreshFunder ==
    /\ runs = 2 /\ results = <<TRUE>> /\ last.touched
    /\ LastAuthor = [name |-> Al, institution |-> <<>>, funders |-> <<NSF>>]
    /\ db.authors = <<Al>>
    /\ db.funders = <<N_F, NSF>>
    /\ db.paper_funders = <<>>
    /\ db.author_funders = <<<<1, 1, 1>>, <<1, 2, 2>>>>

\* A fetch on its own has returned a record.
Fetched == last.op = "fetch" /\ last.request # <<>> /\ paper # NoPaper

\* C12: funder attribution by the ingestion adapter.  In the record a fetch
\* returns, the paper-level funders are exactly the funder names of the
\* work's grants, each once, and every author's funders list equals the
\* paper's funders list.
FunderAttribution ==
    Fetched =>
        /\ {paper.funders[j] : j \in 1..Len(paper.funders)}
              = {g \in {last.request[2].data.grants[j] :
                           j \in 1..Len(last.request[2].data.grants)} : g # Missing}
        /\ NoRepeat(paper.funders)
        /\ \A i \in 1..Len(paper.authors) : paper.authors[i].funders = paper.funders

\* C12 witness: the work has one author and two grants of one funder; the
\* record names the funder once, for the author and for the paper.
OneFunderOfTwoGrants ==
    /\ Fetched
    /\ last.request[2].data.grants = <<NSF, NSF>>
    /\ Len(paper.authors) = 1
    /\ paper.authors[1].funders = <<NSF>>
    /\ paper.funders = <<NSF>>

\* C13: DOI prefix stripping.  A fetch of a bare identifier d and a fetch of
\* "https://doi.org/" + d request the same URL, that of d; given the same
\* response they return the same record, and its doi does not begin with
\* the prefix.
PrefixStripped ==
    (last.op = "fetch" /\ last.request # <<>>) =>
        \E d \in DOIs \cup {test_doi} :
            /\ last.request[1] \in {d, <<DoiPrefix>> \o d}
            /\ last.url = <<"https://api.openalex.org/works/doi:">> \o d
            /\ fetch_paper_data_from_openalex(d, last.request[2])
                  = fetch_paper_data_from_openalex(<<DoiPrefix>> \o d, last.request[2])
            /\ paper # NoPaper => Head(paper.doi) # DoiPrefix

\* C13 witness: the doi was typed with the prefix and the work carries no
\* doi, so the record takes the typed one, stripped.
TypedPrefixStripped ==
    /\ Fetched
    /\ last.request[1] = <<DoiPrefix, "10.1/x">>
    /\ last.request[2].data.doi = Missing
    /\ paper.doi = <<"10.1/x">>

\* What a resolver call did to the rows and the unit of work of the session
\* it was given: nothing at all, or no more than the flush of its query.
Untouched(s, after) == after.t = s.t /\ after.pend = s.pend
OnlyFlushed(s, after) == after.t = Flush(s).t /\ after.pend = <<>> /\ ~after.err

\* C14 (as claimed): the resolver is read-only.  At each of the three places
\* update_database calls a resolver, the call leaves the session's rows as
\* they were and its pending objects pending.
ResolverReadOnly ==
    pc = "loop" =>
        \A a \in {paper.authors[Len(results) + 1]} :
        \A f1 \in {FindOrCreatePaper(db, paper.doi)} :
        \A f2 \in {FindOrCreateAuthor(f1, a.name)} :
        \A f3 \in {FindOrCreateFunders(f2, a.funders)} :
            /\ Untouched(f1.s, fuzzy_match_author(f1.s, a.name).s)
            /\ \A n \in FunderNames :
                  Untouched(f2.s, fuzzy_match_funder(f2.s, n).s)
            /\ \A n \in InstitutionNames :
                  Untouched(f3.s, fuzzy_match_institution(f3.s, n).s)

\* C14 (amended): a resolver call adds no object to the session and changes
\* and deletes no row; its query autoflushes the session it is given, so the
\* objects that were pending are written, in the open transaction, and none
\* is pending afterwards.  A session with nothing pending is left as it was.
ResolverOnlyFlushes ==
    pc = "loop" =>
        \A a \in {paper.authors[Len(results) + 1]} :
        \A f1 \in {FindOrCreatePaper(db, paper.doi)} :
        \A f2 \in {FindOrCreateAuthor(f1, a.name)} :
        \A f3 \in {FindOrCreateFunders(f2, a.funders)} :
            /\ OnlyFlushed(f1.s, fuzzy_match_author(f1.s, a.name).s)
            /\ \A n \in FunderNames :
                  OnlyFlushed(f2.s, fuzzy_match_funder(f2.s, n).s)
            /\ \A n \in InstitutionNames :
                  OnlyFlushed(f3.s, fuzzy_match_institution(f3.s, n).s)
            /\ \A s \in {NewSession(db)} :
                  /\ Untouched(s, fuzzy_match_author(s, a.name).s)
                  /\ \A n \in FunderNames : Untouched(s, fuzzy_match_funder(s, n).s)
                  /\ \A n \in InstitutionNames :
                        Untouched(s, fuzzy_match_institution(s, n).s)

\* C14 witness: the first call on the empty store has added its author, who
\* is pending when the funder lookup starts and written when it returns.
LookupWroteAuthor ==
    /\ pc = "loop" /\ db = Schema /\ results = <<>>
    /\ paper.authors[1].name = Al
    /\ paper.authors[1].funders = <<NSF>>
    /\ \A s \in {FindOrCreateAuthor(FindOrCreatePaper(db, paper.doi), Al).s} :
          /\ s.pend = <<[k |-> "authors", v |-> Al]>>
          /\ s.t.authors = <<>>
          /\ fuzzy_match_funder(s, NSF).r = None
          /\ fuzzy_match_funder(s, NSF).s.t.authors = <<Al>>
          /\ fuzzy_match_funder(s, NSF).s.pend = <<>>

IsPrefix(old, new) ==
    Len(old) <= Len(new) /\ \A i \in 1..Len(old) : new[i] = old[i]

\* The entity rows of `table` that a step added.
Added(table) == {db'[table][i] : i \in (Len(db[table]) + 1)..Len(db'[table])}

\* C15: monotonic store.  Whatever a step does, every row of every table of
\* the committed store stays where it is and as it is: none is deleted, no
\* name and no doi is rewritten.  An entity row is added only by an
\* update_database call and bears a name of that call's record: the paper's
\* doi, the author's name, one of the author's institutions, or one of the
\* author-level or paper-level funders.
MonotonicStore ==
    [][/\ \A table \in DOMAIN Schema : IsPrefix(db[table], db'[table])
       /\ db' # db =>
             /\ pc = "loop" /\ results' # results
             /\ \A a \in {paper.authors[Len(results) + 1]} :
                   /\ Added("papers") \subseteq {paper.doi}
                   /\ Added("authors") \subseteq {a.name}
                   /\ Added("institutions")
                         \subseteq {a.institution[j] : j \in 1..Len(a.institution)}
                   /\ Added("funders")
                         \subseteq {a.funders[j] : j \in 1..Len(a.funders)}
                              \cup {paper.funders[j] : j \in 1..Len(paper.funders)}]_vars

\* C15 witness: a second run named a stored author in another letter case
\* and committed new rows; the author's row keeps its first spelling.
SpellingKept ==
    /\ runs = 2 /\ Called /\ LastOk /\ last.touched
    /\ LastAuthor.name = AL
    /\ db.authors = <<Al>>
    /\ Len(db.papers) = 2

\* C16  Session scoping: when update_database, app.py's fetch_data or
\* app2.py's fetch_data has returned or raised, the session it acquired is
\* closed; no session is open after its call.
SessionClosedAfterCall ==
    last.op \in {"update", "render", "render2"} => last.session # "open"

\* C17  Success/failure reporting: the dashboard reports success for an
\* ingestion only if the update_database call of every author of the fetched
\* paper committed; an ingestion in which an author's call failed is not
\* reported as success.
SuccessOnlyIfAllCommitted ==
    (caller = "dashboard" /\ last.msg = "success")
        => \A i \in 1..Len(results) : results[i]

\* Two rows of the table bear the same name.
Duplicated(store, table) ==
    \E i, j \in 1..Len(store[table]) : i < j /\ store[table][i] = store[table][j]

\* C18  Concurrent-writer gap: entity names are not unique in the store, so
\* two update_database calls that overlap can both miss a new name and both
\* commit a row for it; a commit brings a second row of a name into the
\* authors, funders or institutions table only if the other writer was in a
\* call during the committing call.
DuplicateOnlyFromOverlap ==
    [][(\E table \in {"authors", "funders", "institutions"} :
           Duplicated(db', table) /\ ~Duplicated(db, table))
         => \E w \in Writers : /\ writers.at[w].pc = 9
                               /\ writers'.at[w].pc = 0
                               /\ writers.at[w].seen]_vars

BothWritersCommittedTheName ==
    /\ \A w \in Writers : writers.at[w].pc = 0
    /\ writers.lock = 0
    /\ last.outcome = "committed"
    /\ db.authors = <<Al>>
    /\ db.funders = <<NSF, NSF>>
    /\ db.papers = <<<<"10.1/x">>, <<"10.1/y">>>>

\* C19  Full-entity read and graph: the graph built from what fetch_data
\* returns has a node for every authors row, and its edges are exactly one
\* author-institution edge for every author_institutions row and one
\* author-funder edge for every author and funder that an author_funders row
\* joins, however many papers join them.
GraphMatchesStore ==
    (last.op = "render" /\ last.outcome = "ok") =>
        \A G \in {last.view[1]} :
        \A ai \in {{<<db.author_institutions[k][1], db.author_institutions[k][2]>> :
                      k \in 1..Len(db.author_institutions)}} :
        \A af \in {{<<db.author_funders[k][1], db.author_funders[k][2]>> :
                      k \in 1..Len(db.author_funders)}} :
           /\ \A i \in 1..Len(db.authors) :
                 db.authors[i] \in Nodes(G) /\ G.type[db.authors[i]] = "author"
           /\ G.edges = {{db.authors[e[1]], db.institutions[e[2]]} : e \in ai}
                          \cup {{db.authors[e[1]], db.funders[e[2]]} : e \in af}

OneEdgeForTwoPapers ==
    /\ last.op = "render"
    /\ last.outcome = "ok"
    /\ db.author_funders = <<<<1, 1, 1>>, <<1, 1, 2>>>>
    /\ db.author_institutions = <<<<1, 1>>>>
    /\ Cardinality(Nodes(last.view[1])) = 3
    /\ Cardinality(last.view[1].edges) = 2

\* The name has q in it, letter case apart.
HasFolded(name, q) ==
    \E i \in 1..(Len(name) - Len(q) + 1) :
        SameFolded(SubSeq(name, i, i + Len(q) - 1), q)

\* C20  Name filter: for a non-empty search string q the displayed nodes
\* are exactly the nodes of the full graph whose name contains q, letter case
\* apart, and the nodes joined to one of them by an edge of the full graph
\* (none when no name matches); for an empty q the full graph is displayed.
FilterShowsMatchesAndNeighbours ==
    (last.op = "render" /\ last.outcome = "ok") =>
        \A G \in {last.view[1]} :
        \A shown \in {last.view[2]} :
        \A q \in {last.request[1]} :
           IF q = <<>> THEN shown = G
           ELSE \A hits \in {{n \in Nodes(G) : HasFolded(n, q)}} :
                  Nodes(shown) =
                     hits \cup {m \in Nodes(G) : \E n \in hits : {n, m} \in G.edges}

NeighbourShownOthersHidden ==
    /\ last.op = "render"
    /\ last.outcome = "ok"
    /\ last.request = << <<"n">> >>
    /\ NSF \in Nodes(last.view[2])
    /\ \E m \in Nodes(last.view[2]) : ~HasFolded(m, <<"n">>)
    /\ \E m \in Nodes(last.view[1]) : m \notin Nodes(last.view[2])

IdsAssignedAtCheck ==
    pc = "loop" =>
        \A a \in {paper.authors[Len(results) + 1]} :
        \A f \in {BeforeAuthorFunders(db, paper, a)} :
        \A keys \in {FilterValues(f, f.funders)} :
           \A k \in 1..Len(keys) : ~HasNull(keys[k])

\* C23  The whole graph is loaded per refresh: the graph a render of the
\* dashboard builds is the graph of the store as it is committed at that
\* render, whoever wrote the rows (the dashboard's button or a script).
RefreshShowsCommittedRows ==
    (last.op = "render" /\ last.outcome = "ok") =>
        last.view[1] = create_network_graph(LoadAuthors(db))

\* C24  Paper-level partial persistence: add_paper_to_db makes one
\* update_database call per author, in list order.  A call that fails leaves
\* the store as the calls before it committed it, the failure does not end
\* the loop, and the authors after it are still processed.
PartialPersistence ==
    [][(caller \in {"dashboard", "ingest"} /\ results' # results /\ results' # <<>>)
          => /\ Len(results') = Len(results) + 1
             /\ ~results'[Len(results')] => db' = db
             /\ pc' = IF Len(results') < Len(paper.authors) THEN "loop" ELSE "done"
             /\ paper' = paper]_vars

\* C24 witness: the call for the first author failed and the call for the
\* second committed; the paper is in the store with its second author only.
SecondAuthorOnly ==
    /\ caller = "dashboard"
    /\ pc = "done"
    /\ results = <<FALSE, TRUE>>
    /\ Len(paper.authors) = 2
    /\ paper.authors[1].institution # <<>>
    /\ paper.authors[2].institution = <<>>
    /\ db.papers = <<paper.doi>>
    /\ db.paper_authors = <<<<1, 1>>>>
    /\ db.institutions = <<>>

NoAuthorsNoWrite ==
    [][(caller' \in {"dashboard", "ingest"} /\ paper' # NoPaper
          /\ paper'.authors = <<>>)
          => /\ db' = db
             /\ pc' # "loop"
             /\ results' = <<>>
             /\ last'.op = "fetch" => last'.outcome = "ok"]_vars

\* C26 witness: the dashboard fetched a work without authorships but with a
\* grant; the store is still empty.
FundedPaperNotStored ==
    /\ caller = "dashboard"
    /\ pc = "done"
    /\ last.op = "fetch"
    /\ last.outcome = "ok"
    /\ paper # NoPaper
    /\ paper.authors = <<>>
    /\ paper.funders # <<>>
    /\ db = Schema

\* C27  Concurrent upserts of one triple: however two update_database calls
\* interleave, when a call returns the store has no (author, funder, paper)
\* row twice, and a call that failed has left the store as it was, so of two
\* calls that both found the row missing at most one commits it.
TripleUniqueWhenInterleaved ==
    [][(\E w \in Writers : writers.at[w].pc # 0 /\ writers'.at[w].pc = 0)
          => /\ NoRepeat(db'.author_funders)
             /\ last'.outcome = "raised" => db' = db
             /\ last'.outcome = "committed" => last'.refused = "none"]_vars

\* C27 witness: author, funder and paper were in the store without a row for
\* the three; two calls for them overlapped, one committed the row and the
\* other was refused it and wrote nothing.
SecondTripleRefused ==
    /\ \A w \in Writers : writers.at[w].pc = 0
    /\ writers.calls = 3
    /\ last.op = "update"
    /\ last.outcome = "raised"
    /\ last.refused = "author_funders"
    /\ db.papers = <<<<"10.1/x">>>>
    /\ db.authors = <<Al>>
    /\ db.funders = <<NSF>>
    /\ db.author_funders = <<<<1, 1, 1>>>>

\* Where the name n is added as a node when the graph is built from the
\* author list A: <<i, 1, 0>> as author i, <<i, 2, k>> as institution k of
\* author i, <<i, 3, k>> as funder of association k of author i.
AddedAt(A, n) ==
    {<<i, 1, 0>> : i \in {j \in 1..Len(A) : A[j].name = n}}
    \cup {c \in (1..Len(A)) \X {2} \X (1..MaxCalls) :
             /\ c[3] <= Len(A[c[1]].institutions)
             /\ A[c[1]].institutions[c[3]] = n}
    \cup {c \in (1..Len(A)) \X {3} \X (1..MaxCalls) :
             /\ c[3] <= Len(A[c[1]].author_funder_associations)
             /\ A[c[1]].author_funder_associations[c[3]].funder = <<n>>}

Before(c, d) ==
    \/ c[1] < d[1]
    \/ c[1] = d[1] /\ c[2] < d[2]
    \/ c[1] = d[1] /\ c[2] = d[2] /\ c[3] <= d[3]

\* C28  Graph nodes are keyed by name only: the nodes of the graph are the
\* distinct names among the authors read, their institutions and the funders
\* of their AuthorFunders rows; a name borne by several entities is one node,
\* whose type is that of the entity added last and whose edges are those of
\* all of them.
NodesKeyedByName ==
    (last.op = "render" /\ last.outcome = "ok") =>
        \A A \in {cache[1]} :
        \A G \in {last.view[1]} :
        \A names \in {{A[i].name : i \in 1..Len(A)}
                      \cup UNION {{A[i].institutions[k] :
                                     k \in 1..Len(A[i].institutions)} :
                                  i \in 1..Len(A)}
                      \cup UNION {{A[i].author_funder_associations[k].funder[1] :
                                     k \in {j \in 1..Len(A[i].author_funder_associations) :
                                              A[i].author_funder_associations[j].funder # <<>>}} :
                                  i \in 1..Len(A)}} :
           /\ Nodes(G) = names
           /\ Cardinality(Nodes(G)) = Cardinality(names)
           /\ \A n \in names :
                 \E c \in AddedAt(A, n) :
                    /\ \A d \in AddedAt(A, n) : Before(d, c)
                    /\ G.type[n] = <<"author", "institution", "funder">>[c[2]]
           /\ \A n \in names :
                 neighbors(G, n) =
                    {m \in names :
                       \E i \in 1..Len(A) :
                          \/ \E k \in 1..Len(A[i].institutions) :
                                {A[i].name, A[i].institutions[k]} = {n, m}
                          \/ \E k \in 1..Len(A[i].author_funder_associations) :
                                /\ A[i].author_funder_associations[k].funder # <<>>
                                /\ {A[i].name,
                                    A[i].author_funder_associations[k].funder[1]}
                                      = {n, m}}

\* C28 witness: an author is named MIT, and two author rows named Al each
\* have the institution MIT and the funder MIT; the graph has the two nodes
\* Al and MIT, MIT has the type of the funder, and one edge joins them.
FiveEntitiesTwoNodes ==
    /\ last.op = "render"
    /\ last.outcome = "ok"
    /\ Len(cache[1]) = 3
    /\ cache[1][1].name = MIT
    /\ cache[1][2].name = Al
    /\ cache[1][3].name = Al
    /\ cache[1][3].author_funder_associations # <<>>
    /\ Nodes(last.view[1]) = {Al, MIT}
    /\ last.view[1].type[MIT] = "funder"
    /\ last.view[1].edges = {{Al, MIT}}

\* C29  The institution-funder relation is untouched: no step of any
\* update_database call inserts into or removes from institution_funders;
\* the table is the same before and after every call.
InstitutionFundersUntouched ==
    [][db'.institution_funders = db.institution_funders]_vars

\* C29 witness: a call has committed an author with an institution and a
\* funder, linked to both, and institution_funders has no row.
InstitutionAndFunderUnrelated ==
    /\ last.op = "update"
    /\ last.outcome = "committed"
    /\ db.author_institutions # <<>>
    /\ db.author_funders # <<>>
    /\ db.institutions # <<>>
    /\ db.funders # <<>>
    /\ db.institution_funders = <<>>

====
